---------------------------- MODULE Spec2Model ----------------------------
(***************************************************************************)
(* download_paper.py: resolve a paper (arXiv id, URL or local file) to a   *)
(* local PDF through an on-disk cache, extract its page text, detect a     *)
(* title and segment the text into sections, and print one JSON object.    *)
(*                                                                         *)
(* Strings are sequences of one-character strings, so that strip, split,   *)
(* lower, replace, endswith and the heading pattern are computed on the    *)
(* characters, as the code computes them.                                  *)
(***************************************************************************)
EXTENDS Integers, Sequences, FiniteSets, TLC

(***************************************************************************)
(* Python str operations                                                   *)
(***************************************************************************)

\* The characters str.strip() removes and \s matches.
Whitespace == {" ", "\t", "\n", "\r", "\f"}

\* The characters \d matches.
Digits == {"0", "1", "2", "3", "4", "5", "6", "7", "8", "9"}

UpperLetters ==
    <<"A","B","C","D","E","F","G","H","I","J","K","L","M",
      "N","O","P","Q","R","S","T","U","V","W","X","Y","Z">>

LowerLetters ==
    <<"a","b","c","d","e","f","g","h","i","j","k","l","m",
      "n","o","p","q","r","s","t","u","v","w","x","y","z">>

\* str.lower() on one character.
LowerChar(c) ==
    IF \E i \in 1..Len(UpperLetters) : UpperLetters[i] = c
    THEN LowerLetters[CHOOSE i \in 1..Len(UpperLetters) : UpperLetters[i] = c]
    ELSE c

\* str.lower()
Lower(s) == [i \in 1..Len(s) |-> LowerChar(s[i])]

\* s[n:] for n >= 0
From(s, n) == SubSeq(s, n + 1, Len(s))

\* str.startswith
StartsWith(s, w) == Len(s) >= Len(w) /\ SubSeq(s, 1, Len(w)) = w

\* str.endswith
EndsWith(s, w) ==
    Len(s) >= Len(w) /\ SubSeq(s, Len(s) - Len(w) + 1, Len(s)) = w

\* The number of leading characters of s that are in set cs.
Span(s, cs) ==
    CHOOSE n \in 0..Len(s) :
        /\ \A i \in 1..n : s[i] \in cs
        /\ n = Len(s) \/ s[n + 1] \notin cs

\* The number of trailing characters of s that are in set cs.
SpanEnd(s, cs) ==
    CHOOSE n \in 0..Len(s) :
        /\ \A i \in 1..n : s[Len(s) + 1 - i] \in cs
        /\ n = Len(s) \/ s[Len(s) - n] \notin cs

\* str.strip()
Strip(s) ==
    LET l == From(s, Span(s, Whitespace))
    IN  SubSeq(l, 1, Len(l) - SpanEnd(l, Whitespace))

\* The number of characters of s before its first sep, Len(s) without one.
Before(s, sep) ==
    CHOOSE n \in 0..Len(s) :
        /\ \A i \in 1..n : s[i] # sep
        /\ n = Len(s) \/ s[n + 1] = sep

\* str.split(sep) for a one-character separator: never empty, "" gives [""].
RECURSIVE Split(_, _)
Split(s, sep) ==
    LET n == Before(s, sep)
    IN  IF n = Len(s)
        THEN <<s>>
        ELSE <<SubSeq(s, 1, n)>> \o Split(From(s, n + 1), sep)

\* sep.join(parts)
RECURSIVE Join(_, _)
Join(parts, sep) ==
    IF parts = <<>> THEN <<>>
    ELSE IF Len(parts) = 1 THEN parts[1]
    ELSE parts[1] \o sep \o Join(Tail(parts), sep)

\* str.replace(old, ""): every non-overlapping occurrence, left to right.
RECURSIVE Remove(_, _)
Remove(s, old) ==
    IF s = <<>> THEN <<>>
    ELSE IF StartsWith(s, old) THEN Remove(From(s, Len(old)), old)
    ELSE <<Head(s)>> \o Remove(Tail(s), old)

(***************************************************************************)
(* extract_text: the heading pattern, title detection and segmentation     *)
(***************************************************************************)

\* Python's None: a value that is no string (its one element is no character).
None == <<"None">>

\* The heading vocabulary, in the pattern's order, lower-cased.  A word with an
\* optional last letter ("experiments?") is entered without and with it.
Vocabulary ==
    << <<"a","b","s","t","r","a","c","t">>,
       <<"i","n","t","r","o","d","u","c","t","i","o","n">>,
       <<"b","a","c","k","g","r","o","u","n","d">>,
       <<"m","e","t","h","o","d","o","l","o","g","y">>,
       <<"m","e","t","h","o","d">>,
       <<"m","e","t","h","o","d","s">>,
       <<"a","p","p","r","o","a","c","h">>,
       <<"e","x","p","e","r","i","m","e","n","t">>,
       <<"e","x","p","e","r","i","m","e","n","t","s">>,
       <<"r","e","s","u","l","t">>,
       <<"r","e","s","u","l","t","s">>,
       <<"d","i","s","c","u","s","s","i","o","n">>,
       <<"c","o","n","c","l","u","s","i","o","n">>,
       <<"c","o","n","c","l","u","s","i","o","n","s">>,
       <<"r","e","f","e","r","e","n","c","e","s">>,
       <<"a","c","k","n","o","w","l","e","d","g","e","m","e","n","t">>,
       <<"a","c","k","n","o","w","l","e","d","g","e","m","e","n","t","s">>,
       <<"a","p","p","e","n","d","i","x">> >>

RelatedWord == <<"r","e","l","a","t","e","d">>

WorkWord == <<"w","o","r","k">>

\* related\s*work at the start of the lower-cased string ls.
MatchesRelatedWork(ls) ==
    /\ StartsWith(ls, RelatedWord)
    /\ \E k \in 0..Span(From(ls, Len(RelatedWord)), Whitespace) :
           StartsWith(From(ls, Len(RelatedWord) + k), WorkWord)

MatchesVocabularyCaseSensitiveMut(s) ==
    \/ \E i \in 1..Len(Vocabulary) : StartsWith(s, Vocabulary[i])
    \/ MatchesRelatedWork(s)

\* The alternation (abstract|introduction|related\s*work|...) at the start
\* of s, under re.IGNORECASE.
MatchesVocabulary(s) ==
    LET ls == Lower(s)
    IN  \/ \E i \in 1..Len(Vocabulary) : StartsWith(ls, Vocabulary[i])
        \/ MatchesRelatedWork(ls)

\* What can remain of s after the optional group (?:\d+\.?\s*)? has matched
\* a prefix of it: s itself, or s without one or more digits, an optional
\* dot and any number of whitespace characters.
AfterNumberPrefix(s) ==
    {s} \cup
    UNION { UNION { { From(s, d + dot + k) :
                         k \in 0..Span(From(s, d + dot), Whitespace) } :
                    dot \in {0} \cup
                        (IF d < Len(s) /\ s[d + 1] = "." THEN {1} ELSE {}) } :
            d \in 1..Span(s, Digits) }

\* section_pattern.match(line_stripped): anchored at the start of the line.
section_pattern_match(line_stripped) ==
    \E r \in AfterNumberPrefix(line_stripped) : MatchesVocabulary(r)

TitleMinLen == 10

TitleMaxLen == 200

TitleScanLines == 5

TitleLengthInclusiveMut(line) ==
    Len(line) >= TitleMinLen /\ Len(line) <= TitleMaxLen

\* len(line) > 10 and len(line) < 200
TitleLengthOk(line) == Len(line) > TitleMinLen /\ Len(line) < TitleMaxLen

TitleCandidatesNonEmptyMut(text) ==
    LET lines == Split(Strip(text), "\n")
        nonEmpty == SelectSeq(lines, LAMBDA l : Strip(l) # <<>>)
    IN  [i \in 1..(IF Len(nonEmpty) < TitleScanLines
                   THEN Len(nonEmpty) ELSE TitleScanLines) |-> Strip(nonEmpty[i])]

\* text.strip().split('\n')[:5], each line stripped.
TitleCandidates(text) ==
    LET lines == Split(Strip(text), "\n")
    IN  [i \in 1..(IF Len(lines) < TitleScanLines
                   THEN Len(lines) ELSE TitleScanLines) |-> Strip(lines[i])]

\* The loop over lines[:5]: the first candidate of qualifying length, or
\* None when there is none.
DetectTitle(text) ==
    LET c == TitleCandidates(text)
        ok == {i \in 1..Len(c) : TitleLengthOk(c[i])}
    IN  IF ok = {} THEN None
        ELSE c[CHOOSE i \in ok : \A j \in ok : i <= j]

\* `not title`: None and the empty string are falsy.
Falsy(title) == title = None \/ title = <<>>

Beginning == <<"B","e","g","i","n","n","i","n","g">>

\* current_section = {"title": "Beginning", "content": []}
InitialSection == [title |-> Beginning, content |-> <<>>]

HasContentAlwaysMut(section) == TRUE

\* `if current_section["content"]:` a non-empty list of lines.
HasContent(section) == section.content # <<>>

\* The section as appended: its content lines joined by newlines.
Finalized(section) ==
    [title |-> section.title, content |-> Join(section.content, <<"\n">>)]

\* sections.append(current_section), when it has content.
Flush(sections, section) ==
    IF HasContent(section) THEN Append(sections, Finalized(section))
    ELSE sections

SegmentLineKeepsHeadingMut(seg, line) ==
    LET line_stripped == Strip(line)
    IN  IF section_pattern_match(line_stripped)
        THEN [sections |-> Flush(seg.sections, seg.current_section),
              current_section |-> [title |-> line_stripped,
                                   content |-> <<line_stripped>>]]
        ELSE IF line_stripped # <<>>
        THEN [sections |-> seg.sections,
              current_section |->
                  [title |-> seg.current_section.title,
                   content |-> Append(seg.current_section.content,
                                      line_stripped)]]
        ELSE seg

\* One iteration of `for line in text.split('\n')`, on the pair
\* seg = [sections, current_section].
SegmentLine(seg, line) ==
    LET line_stripped == Strip(line)
    IN  IF section_pattern_match(line_stripped)
        THEN [sections |-> Flush(seg.sections, seg.current_section),
              current_section |-> [title |-> line_stripped, content |-> <<>>]]
        ELSE IF line_stripped # <<>>
        THEN [sections |-> seg.sections,
              current_section |->
                  [title |-> seg.current_section.title,
                   content |-> Append(seg.current_section.content,
                                      line_stripped)]]
        ELSE seg

RECURSIVE SegmentLines(_, _)
SegmentLines(seg, lines) ==
    IF lines = <<>> THEN seg
    ELSE SegmentLines(SegmentLine(seg, Head(lines)), Tail(lines))

\* The locals of extract_text before the first page.
InitialExtract ==
    [page_num |-> 0, title |-> None, full_text |-> <<>>,
     sections |-> <<>>, current_section |-> InitialSection]

ProcessPageNewSectionMut(ex, text) ==
    LET seg == SegmentLines([sections |-> Flush(ex.sections, ex.current_section),
                             current_section |->
                                 [title |-> ex.current_section.title,
                                  content |-> <<>>]],
                            Split(text, "\n"))
    IN  [page_num |-> ex.page_num + 1,
         title |-> IF ex.page_num = 0 /\ Falsy(ex.title)
                   THEN DetectTitle(text) ELSE ex.title,
         full_text |-> Append(ex.full_text, text),
         sections |-> seg.sections,
         current_section |-> seg.current_section]

\* One iteration of `for page_num, page in enumerate(doc)` on the locals ex,
\* with text the page's get_text().
ProcessPage(ex, text) ==
    LET seg == SegmentLines([sections |-> ex.sections,
                             current_section |-> ex.current_section],
                            Split(text, "\n"))
    IN  [page_num |-> ex.page_num + 1,
         title |-> IF ex.page_num = 0 /\ Falsy(ex.title)
                   THEN DetectTitle(text) ELSE ex.title,
         full_text |-> Append(ex.full_text, text),
         sections |-> seg.sections,
         current_section |-> seg.current_section]

ExtractResultEmptyTitleMut(ex, pdf_path, num_pages) ==
    [title |-> IF ex.title = None THEN <<>> ELSE ex.title,
     pdf_path |-> pdf_path,
     pages |-> num_pages,
     text |-> Join(ex.full_text, <<"\n", "\n">>),
     sections |-> Flush(ex.sections, ex.current_section)]

\* The dictionary extract_text returns, after the final section is added.
ExtractResult(ex, pdf_path, num_pages) ==
    [title |-> ex.title,
     pdf_path |-> pdf_path,
     pages |-> num_pages,
     text |-> Join(ex.full_text, <<"\n", "\n">>),
     sections |-> Flush(ex.sections, ex.current_section)]

(***************************************************************************)
(* The world: paths, sources, the remote index and the remote documents    *)
(***************************************************************************)

DotPdf == <<".","p","d","f">>

\* os.path.join(a, b) for a directory a without a trailing separator.
PathJoin(a, b) == IF StartsWith(b, <<"/">>) THEN b ELSE a \o <<"/">> \o b

\* tempfile.gettempdir()
TempDir == <<"/","t","m","p">>

\* cache_dir = os.path.join(tempfile.gettempdir(), "paper_cache")
CacheDir ==
    PathJoin(TempDir, <<"p","a","p","e","r","_","c","a","c","h","e">>)

\* Identifiers as given on the command line: one the index knows, the same
\* with the scheme prefix, upper-cased and followed by a blank, and one the
\* index does not know.
Id12 == <<"1","2">>

Id12Prefixed == <<"A","R","X","I","V",":","1","2"," ">>

Id99 == <<"9","9">>

\* An identifier with a letter, and the same in the other letter case with
\* the prefix in mixed case and whitespace before the prefix and after it.
IdVersioned == <<"1","v","2">>

IdVersionedPrefixed == <<"\t","a","r","X","i","v",":"," ","1","V","2">>

ArxivSources == {Id12, Id12Prefixed, Id99, IdVersioned, IdVersionedPrefixed}

\* The identifiers the remote index has a record of.
IndexIds == {Id12, IdVersioned}

Http == <<"h","t","t","p",":","/","/">>

UrlAX == Http \o <<"a","/","x">> \o DotPdf

UrlBX == Http \o <<"b","/","x">> \o DotPdf

UrlAP == Http \o <<"a","/","p">>

UrlAArxiv == Http \o <<"a","/","a","r","x","i","v","_","1","2">> \o DotPdf

UrlSources == {UrlAX, UrlBX, UrlAP, UrlAArxiv}

LocalPresent == <<"/","l",".","p","d","f">>

LocalMissing == <<"/","m",".","p","d","f">>

LocalSources == {LocalPresent, LocalMissing}

KArxiv == <<"a","r","x","i","v">>

KLocal == <<"l","o","c","a","l">>

KLocalMixed == <<"L","o","c","a","L">>

KUrl == <<"u","r","l">>

KUrlUpper == <<"U","R","L">>

KFtp == <<"f","t","p">>

\* Page texts of the documents of the world.
TextHi == <<"H","i">>

TextAbstract ==
    <<"A","b","s","t","r","a","c","t","\n","a"," ","b","o","d","y",
      " ","l","i","n","e">>

TextConclusion ==
    <<"C","o","n","c","l","u","s","i","o","n","\n","T","h","e"," ",
      "e","n","d",".">>

\* What a file holds: where its bytes came from, the pages of the PDF they
\* encode, whether all of the bytes are there, and whether bytes of another
\* body follow them.
FileOf(origin, pages, whole) ==
    [origin |-> origin, pages |-> pages, whole |-> whole, over |-> FALSE]

\* The PDF the repository serves for a normalized identifier.
ArxivBody(arxiv_id) ==
    FileOf(<<"arxiv", arxiv_id>>, <<TextAbstract, TextConclusion>>, TRUE)

\* The body of a successful GET of url.
UrlBody(url) == FileOf(<<"url", url>>, <<TextAbstract>>, TRUE)

\* The same bytes cut short: a write that has begun and not ended.
Truncated(body) == FileOf(body.origin, body.pages, FALSE)

\* The bytes of body with the end of a longer file behind them.
Overlaid(body) == [body EXCEPT !.over = TRUE]

\* How many bytes a body has, in units: the more pages, the more bytes.
Length(body) == Len(body.pages)

WriteOutcomesFirstWinsMut(existing, body) == {existing}

\* What a file opened with 'wb' can hold once body has been written to it
\* from its start, when it held `existing` just before.  The file was cut to
\* nothing when the writer opened it; what is in it since was put there by
\* another writer of the same path, and what of that lies beyond the end of
\* body stays.  A file cut short has any length below that of its body.
WriteOutcomes(existing, body) ==
    IF existing.origin = body.origin THEN {body}
    ELSE IF Length(existing) <= Length(body) THEN {body}
    ELSE IF existing.whole /\ ~existing.over THEN {Overlaid(body)}
    ELSE {body, Overlaid(body)}

LocalBody == FileOf(<<"local">>, <<TextHi, TextConclusion>>, TRUE)

\* The command lines tried: sys.argv[1:].  Every kind with its sources, two
\* kinds in another letter case, an unknown kind and a missing argument.
Invocations ==
    {<<KArxiv, s>> : s \in ArxivSources}
    \cup {<<k, s>> : k \in {KLocal, KLocalMixed}, s \in LocalSources}
    \cup {<<KUrl, s>> : s \in UrlSources}
    \cup {<<KUrlUpper, UrlAP>>, <<KFtp, LocalPresent>>, <<KLocal>>}

\* The number of processes that may run the script at once.
NumProcs == 2

Procs == 1..NumProcs

\* The process of the runs that follow one another.
SeqProcs == {1}

\* The number of invocations in one behaviour.
MaxRuns == 2

\* hash(url) & 0xFFFFFFFF is drawn from 0..MaxHash in each run.
MaxHash == 1

DigitChars == <<"0","1","2","3","4","5","6","7","8","9">>

\* str(n) of a natural number, as an f-string formats it.
RECURSIVE Decimal(_)
Decimal(n) ==
    IF n < Len(DigitChars) THEN <<DigitChars[n + 1]>>
    ELSE Decimal(n \div Len(DigitChars)) \o <<DigitChars[(n % Len(DigitChars)) + 1]>>

(***************************************************************************)
(* State                                                                   *)
(***************************************************************************)

VARIABLES
    files,      \* the file system: path -> what the file holds
    log,        \* the invocations that have ended, in order
    pc,         \* where each process is
    argv,       \* sys.argv[1:] of each process
    loc,        \* the locals of main and of the download function
    doc,        \* the fitz document of extract_text
    ex,         \* the locals of extract_text
    stdout,     \* the objects printed, in order
    status      \* <<>> while running, then <<exit status>>

vars == <<files, log, pc, argv, loc, doc, ex, stdout, status>>

NoLocals ==
    [source_type |-> None, source |-> None, cache_path |-> None,
     pdf_path |-> None, hit |-> FALSE, queries |-> 0, downloads |-> 0,
     gets |-> 0, opens |-> 0]

\* No document: fitz.open has not returned one.
NoDoc == [opened |-> FALSE, path |-> None, pages |-> <<>>, closed |-> FALSE]

\* filename of download_url, with h the value of hash(url) & 0xFFFFFFFF.
UrlFilename(url, h) ==
    LET parts == Split(url, "/")
        filename == parts[Len(parts)]
    IN  IF EndsWith(filename, DotPdf) THEN filename
        ELSE Decimal(h) \o DotPdf

\* The file system before the first invocation: one local PDF, an empty cache.
InitialFiles == LocalPresent :> LocalBody

\* The cache as an earlier download_url of one URL left it, in a process
\* whose hash(url) & 0xFFFFFFFF was MaxHash.
WarmCache ==
    PathJoin(CacheDir, UrlFilename(UrlAP, MaxHash)) :> UrlBody(UrlAP)

\* The cache directory outlives the invocations: the first one of a
\* behaviour finds it empty, or as that earlier download left it.
Init ==
    /\ files \in {InitialFiles, InitialFiles @@ WarmCache}
    /\ log = <<>>
    /\ pc = [p \in Procs |-> "idle"]
    /\ argv = [p \in Procs |-> <<>>]
    /\ loc = [p \in Procs |-> NoLocals]
    /\ doc = [p \in Procs |-> NoDoc]
    /\ ex = [p \in Procs |-> InitialExtract]
    /\ stdout = [p \in Procs |-> <<>>]
    /\ status = [p \in Procs |-> <<>>]

\* os.path.exists(path)
Exists(path) == path \in DOMAIN files

WithOnlyFileMut(path, body) == path :> body

\* The file system with path holding body.
WithFile(path, body) == [q \in DOMAIN files \cup {path} |->
                            IF q = path THEN body ELSE files[q]]

RaiseNoExitMut(p, message) ==
    /\ stdout' = [stdout EXCEPT ![p] = Append(@, [error |-> message])]
    /\ status' = [status EXCEPT ![p] = <<0>>]
    /\ pc' = [pc EXCEPT ![p] = "exited"]

RaiseRetryMut(p, message) ==
    /\ pc' = [pc EXCEPT ![p] = "main"]
    /\ UNCHANGED <<stdout, status>>

\* print(json.dumps({"error": str(e)})); sys.exit(1)
Raise(p, message) ==
    /\ stdout' = [stdout EXCEPT ![p] = Append(@, [error |-> message])]
    /\ status' = [status EXCEPT ![p] = <<1>>]
    /\ pc' = [pc EXCEPT ![p] = "exited"]

\* The script is started with a command line.
Invoke(p) ==
    /\ pc[p] = "idle"
    /\ Len(log) + Cardinality({q \in Procs : pc[q] # "idle"}) < MaxRuns
    /\ \E a \in Invocations : argv' = [argv EXCEPT ![p] = a]
    /\ pc' = [pc EXCEPT ![p] = "main"]
    /\ UNCHANGED <<files, log, loc, doc, ex, stdout, status>>

\* main with fewer than two arguments: the usage message, outside the try.
MainUsage(p) ==
    /\ pc[p] = "main"
    /\ Len(argv[p]) < 2
    /\ stdout' = [stdout EXCEPT ![p] = Append(@, [error |-> <<"Usage", <<>>>>])]
    /\ status' = [status EXCEPT ![p] = <<1>>]
    /\ pc' = [pc EXCEPT ![p] = "exited"]
    /\ UNCHANGED <<files, log, argv, loc, doc, ex>>

ParsedRawMut(p) ==
    [loc[p] EXCEPT !.source_type = argv[p][1], !.source = argv[p][2]]

\* source_type = sys.argv[1].lower(); source = sys.argv[2]
Parsed(p) ==
    [loc[p] EXCEPT !.source_type = Lower(argv[p][1]), !.source = argv[p][2]]

CleanArxivIdNoLowerMut(arxiv_id) ==
    Strip(Remove(arxiv_id, KArxiv \o <<":">>))

\* arxiv_id.lower().replace("arxiv:", "").strip()
CleanArxivId(arxiv_id) ==
    Strip(Remove(Lower(arxiv_id), KArxiv \o <<":">>))

ArxivFilename(arxiv_id) == KArxiv \o <<"_">> \o arxiv_id \o DotPdf

\* cache_path of download_arxiv for the identifier as given.
ArxivCachePath(source) ==
    PathJoin(CacheDir, ArxivFilename(CleanArxivId(source)))

ExistsNeverMut(path) == FALSE

\* `if os.path.exists(cache_path): return cache_path`
CacheHit(path) == Exists(path)

\* main, kind arxiv, to the cache test of download_arxiv.
MainArxiv(p) ==
    /\ pc[p] = "main"
    /\ Len(argv[p]) >= 2
    /\ Lower(argv[p][1]) = KArxiv
    /\ LET cache_path == ArxivCachePath(argv[p][2])
       IN  IF CacheHit(cache_path)
           THEN /\ loc' = [loc EXCEPT ![p] =
                      [Parsed(p) EXCEPT !.cache_path = cache_path,
                                        !.pdf_path = cache_path,
                                        !.hit = TRUE]]
                /\ pc' = [pc EXCEPT ![p] = "open"]
           ELSE /\ loc' = [loc EXCEPT ![p] =
                      [Parsed(p) EXCEPT !.cache_path = cache_path]]
                /\ pc' = [pc EXCEPT ![p] = "arxiv_search"]
    /\ UNCHANGED <<files, log, argv, doc, ex, stdout, status>>

\* list(arxiv.Search(id_list=[arxiv_id]).results()): one query of the index,
\* which answers with the record, with nothing, or not at all.
ArxivSearch(p) ==
    /\ pc[p] = "arxiv_search"
    /\ LET arxiv_id == CleanArxivId(loc[p].source)
           queried == [loc EXCEPT ![p].queries = @ + 1]
       IN  \/ /\ arxiv_id \in IndexIds
              /\ loc' = queried
              /\ pc' = [pc EXCEPT ![p] = "arxiv_download"]
              /\ UNCHANGED <<stdout, status>>
           \/ /\ arxiv_id \notin IndexIds
              /\ loc' = queried
              /\ Raise(p, <<"arXiv paper not found: ", arxiv_id>>)
           \/ /\ loc' = queried
              /\ Raise(p, <<"arxiv: query failed", <<>>>>)
    /\ UNCHANGED <<files, log, argv, doc, ex>>

\* paper.download_pdf(dirpath=cache_dir, filename=...): the transfer starts
\* and the file is created, or the request fails before anything is written.
ArxivDownloadBegin(p) ==
    /\ pc[p] = "arxiv_download"
    /\ loc' = [loc EXCEPT ![p].downloads = @ + 1]
    /\ \/ /\ files' = WithFile(loc[p].cache_path,
                         Truncated(ArxivBody(CleanArxivId(loc[p].source))))
          /\ pc' = [pc EXCEPT ![p] = "arxiv_write"]
          /\ UNCHANGED <<stdout, status>>
       \/ /\ Raise(p, <<"arxiv: download failed", <<>>>>)
          /\ UNCHANGED files
    /\ UNCHANGED <<log, argv, doc, ex>>

\* The transfer ends: every byte is written and download_arxiv returns
\* cache_path, or it breaks off and what was written stays.
ArxivDownloadEnd(p) ==
    /\ pc[p] = "arxiv_write"
    /\ \/ /\ \E f \in WriteOutcomes(files[loc[p].cache_path],
                                     ArxivBody(CleanArxivId(loc[p].source))) :
                 files' = WithFile(loc[p].cache_path, f)
          /\ loc' = [loc EXCEPT ![p].pdf_path = loc[p].cache_path]
          /\ pc' = [pc EXCEPT ![p] = "open"]
          /\ UNCHANGED <<stdout, status>>
       \/ /\ Raise(p, <<"arxiv: download interrupted", <<>>>>)
          /\ UNCHANGED <<files, loc>>
    /\ UNCHANGED <<log, argv, doc, ex>>

MainLocalCopyMut(p) ==
    /\ pc[p] = "main"
    /\ Len(argv[p]) >= 2
    /\ Lower(argv[p][1]) = KLocal
    /\ IF Exists(argv[p][2])
       THEN LET parts == Split(argv[p][2], "/")
                copy == PathJoin(CacheDir, parts[Len(parts)])
            IN  /\ files' = WithFile(copy, files[argv[p][2]])
                /\ loc' = [loc EXCEPT ![p] =
                       [Parsed(p) EXCEPT !.cache_path = copy,
                                         !.pdf_path = copy]]
                /\ pc' = [pc EXCEPT ![p] = "open"]
                /\ UNCHANGED <<stdout, status>>
       ELSE /\ loc' = [loc EXCEPT ![p] = Parsed(p)]
            /\ Raise(p, <<"File not found: ", argv[p][2]>>)
            /\ UNCHANGED files
    /\ UNCHANGED <<log, argv, doc, ex>>

\* main, kind local.
MainLocal(p) ==
    /\ pc[p] = "main"
    /\ Len(argv[p]) >= 2
    /\ Lower(argv[p][1]) = KLocal
    /\ IF Exists(argv[p][2])
       THEN /\ loc' = [loc EXCEPT ![p] =
                  [Parsed(p) EXCEPT !.pdf_path = argv[p][2]]]
            /\ pc' = [pc EXCEPT ![p] = "open"]
            /\ UNCHANGED <<stdout, status>>
       ELSE /\ loc' = [loc EXCEPT ![p] = Parsed(p)]
            /\ Raise(p, <<"File not found: ", argv[p][2]>>)
    /\ UNCHANGED <<files, log, argv, doc, ex>>

\* main, a kind that is none of the three.
MainUnknown(p) ==
    /\ pc[p] = "main"
    /\ Len(argv[p]) >= 2
    /\ Lower(argv[p][1]) \notin {KArxiv, KLocal, KUrl}
    /\ loc' = [loc EXCEPT ![p] = Parsed(p)]
    /\ Raise(p, <<"Unknown source type: ", Lower(argv[p][1])>>)
    /\ UNCHANGED <<files, log, argv, doc, ex>>

\* main, kind url, to the cache test of download_url.  The string hash is
\* salted anew in each process, so its value is any of the possible ones.
MainUrl(p) ==
    /\ pc[p] = "main"
    /\ Len(argv[p]) >= 2
    /\ Lower(argv[p][1]) = KUrl
    /\ \E h \in 0..MaxHash :
         LET cache_path == PathJoin(CacheDir, UrlFilename(argv[p][2], h))
         IN  IF CacheHit(cache_path)
             THEN /\ loc' = [loc EXCEPT ![p] =
                        [Parsed(p) EXCEPT !.cache_path = cache_path,
                                          !.pdf_path = cache_path,
                                          !.hit = TRUE]]
                  /\ pc' = [pc EXCEPT ![p] = "open"]
             ELSE /\ loc' = [loc EXCEPT ![p] =
                        [Parsed(p) EXCEPT !.cache_path = cache_path]]
                  /\ pc' = [pc EXCEPT ![p] = "url_get"]
    /\ UNCHANGED <<files, log, argv, doc, ex, stdout, status>>

\* requests.get(url, timeout=60); response.raise_for_status()
UrlGet(p) ==
    /\ pc[p] = "url_get"
    /\ loc' = [loc EXCEPT ![p].gets = @ + 1]
    /\ \/ /\ pc' = [pc EXCEPT ![p] = "url_open"]
          /\ UNCHANGED <<stdout, status>>
       \/ Raise(p, <<"requests: GET failed", <<>>>>)
    /\ UNCHANGED <<files, log, argv, doc, ex>>

\* open(cache_path, 'wb'): the file exists from here on, and is empty.
UrlOpen(p) ==
    /\ pc[p] = "url_open"
    /\ files' = WithFile(loc[p].cache_path, Truncated(UrlBody(loc[p].source)))
    /\ pc' = [pc EXCEPT ![p] = "url_write"]
    /\ UNCHANGED <<log, argv, loc, doc, ex, stdout, status>>

\* f.write(response.content) and the return of cache_path, or a write that
\* fails and leaves the file as it is.
UrlWrite(p) ==
    /\ pc[p] = "url_write"
    /\ \/ /\ \E f \in WriteOutcomes(files[loc[p].cache_path],
                                     UrlBody(loc[p].source)) :
                 files' = WithFile(loc[p].cache_path, f)
          /\ loc' = [loc EXCEPT ![p].pdf_path = loc[p].cache_path]
          /\ pc' = [pc EXCEPT ![p] = "open"]
          /\ UNCHANGED <<stdout, status>>
       \/ /\ Raise(p, <<"write failed", <<>>>>)
          /\ UNCHANGED <<files, loc>>
    /\ UNCHANGED <<log, argv, doc, ex>>

\* The file is the PDF it was downloaded as: all of its bytes, nothing else.
Intact(body) == body.whole /\ ~body.over

\* doc = fitz.open(pdf_path).  A file that is intact opens with its pages;
\* another is rejected, or repaired to some of its first pages.
OpenDoc(p) ==
    /\ pc[p] = "open"
    /\ Exists(loc[p].pdf_path)
    /\ loc' = [loc EXCEPT ![p].opens = @ + 1]
    /\ LET body == files[loc[p].pdf_path]
       IN  \/ /\ \E n \in 0..Len(body.pages) :
                    /\ Intact(body) => n = Len(body.pages)
                    /\ doc' = [doc EXCEPT ![p] =
                           [opened |-> TRUE,
                            path |-> loc[p].pdf_path,
                            pages |-> SubSeq(body.pages, 1, n),
                            closed |-> FALSE]]
              /\ ex' = [ex EXCEPT ![p] = InitialExtract]
              /\ pc' = [pc EXCEPT ![p] = "pages"]
              /\ UNCHANGED <<stdout, status>>
           \/ /\ ~Intact(body)
              /\ Raise(p, <<"fitz: cannot open", <<>>>>)
              /\ UNCHANGED <<doc, ex>>
    /\ UNCHANGED <<files, log, argv>>

\* One iteration of the page loop: page.get_text(), the title on the first
\* page, the lines of the page, or get_text raising.
ReadPage(p) ==
    /\ pc[p] = "pages"
    /\ ex[p].page_num < Len(doc[p].pages)
    /\ \/ /\ ex' = [ex EXCEPT ![p] =
                       ProcessPage(@, doc[p].pages[ex[p].page_num + 1])]
          /\ UNCHANGED <<pc, stdout, status>>
       \/ /\ Raise(p, <<"fitz: get_text failed", <<>>>>)
          /\ UNCHANGED ex
    /\ UNCHANGED <<files, log, argv, loc, doc>>

\* What main prints on success: the result of extract_text with the two
\* fields main adds.
Output(p) ==
    ExtractResult(ex[p], loc[p].pdf_path, Len(doc[p].pages))
        @@ [source |-> loc[p].source, source_type |-> loc[p].source_type]

\* After the last page: the final section, len(doc), doc.close(), the
\* return, and main's print of the result.
FinishExtract(p) ==
    /\ pc[p] = "pages"
    /\ ex[p].page_num = Len(doc[p].pages)
    /\ doc' = [doc EXCEPT ![p].closed = TRUE]
    /\ stdout' = [stdout EXCEPT ![p] = Append(@, Output(p))]
    /\ status' = [status EXCEPT ![p] = <<0>>]
    /\ pc' = [pc EXCEPT ![p] = "exited"]
    /\ UNCHANGED <<files, log, argv, loc, ex>>

\* The process is gone; what it did is kept for comparison with later runs.
Reap(p) ==
    /\ pc[p] = "exited"
    /\ log' = Append(log, [argv |-> argv[p], loc |-> loc[p],
                           stdout |-> stdout[p], status |-> status[p]])
    /\ pc' = [pc EXCEPT ![p] = "idle"]
    /\ argv' = [argv EXCEPT ![p] = <<>>]
    /\ loc' = [loc EXCEPT ![p] = NoLocals]
    /\ doc' = [doc EXCEPT ![p] = NoDoc]
    /\ ex' = [ex EXCEPT ![p] = InitialExtract]
    /\ stdout' = [stdout EXCEPT ![p] = <<>>]
    /\ status' = [status EXCEPT ![p] = <<>>]
    /\ UNCHANGED files

\* Invocations one after the other.
Next ==
    \/ \E p \in SeqProcs : Invoke(p)
    \/ \E p \in SeqProcs : MainUsage(p)
    \/ \E p \in SeqProcs : MainArxiv(p)
    \/ \E p \in SeqProcs : ArxivSearch(p)
    \/ \E p \in SeqProcs : ArxivDownloadBegin(p)
    \/ \E p \in SeqProcs : ArxivDownloadEnd(p)
    \/ \E p \in SeqProcs : MainLocal(p)
    \/ \E p \in SeqProcs : MainUnknown(p)
    \/ \E p \in SeqProcs : MainUrl(p)
    \/ \E p \in SeqProcs : UrlGet(p)
    \/ \E p \in SeqProcs : UrlOpen(p)
    \/ \E p \in SeqProcs : UrlWrite(p)
    \/ \E p \in SeqProcs : OpenDoc(p)
    \/ \E p \in SeqProcs : ReadPage(p)
    \/ \E p \in SeqProcs : FinishExtract(p)
    \/ \E p \in SeqProcs : Reap(p)

Spec == Init /\ [][Next]_vars

(***************************************************************************)
(* Invocations at the same time: the script is started in several          *)
(* processes that share the cache directory, and nothing orders their      *)
(* steps.                                                                  *)
(***************************************************************************)

\* The command lines of the downloads that meet at a cache path: a
\* repository identifier and a URL of its file name, which have bodies of
\* two lengths, and a URL that meets itself.
SharedInvocations == {<<KArxiv, Id12>>, <<KUrl, UrlAArxiv>>, <<KUrl, UrlAX>>}

\* The script is started with one of them.
InvokeShared(p) ==
    /\ pc[p] = "idle"
    /\ Len(log) + Cardinality({q \in Procs : pc[q] # "idle"}) < MaxRuns
    /\ \E a \in SharedInvocations : argv' = [argv EXCEPT ![p] = a]
    /\ pc' = [pc EXCEPT ![p] = "main"]
    /\ UNCHANGED <<files, log, loc, doc, ex, stdout, status>>

InitConcurrent ==
    /\ files = InitialFiles
    /\ log = <<>>
    /\ pc = [p \in Procs |-> "idle"]
    /\ argv = [p \in Procs |-> <<>>]
    /\ loc = [p \in Procs |-> NoLocals]
    /\ doc = [p \in Procs |-> NoDoc]
    /\ ex = [p \in Procs |-> InitialExtract]
    /\ stdout = [p \in Procs |-> <<>>]
    /\ status = [p \in Procs |-> <<>>]

NextConcurrent ==
    \/ \E p \in Procs : InvokeShared(p)
    \/ \E p \in Procs : MainArxiv(p)
    \/ \E p \in Procs : ArxivSearch(p)
    \/ \E p \in Procs : ArxivDownloadBegin(p)
    \/ \E p \in Procs : ArxivDownloadEnd(p)
    \/ \E p \in Procs : MainUrl(p)
    \/ \E p \in Procs : UrlGet(p)
    \/ \E p \in Procs : UrlOpen(p)
    \/ \E p \in Procs : UrlWrite(p)
    \/ \E p \in Procs : OpenDoc(p)
    \/ \E p \in Procs : ReadPage(p)
    \/ \E p \in Procs : FinishExtract(p)
    \/ \E p \in Procs : Reap(p)

SpecConcurrent == InitConcurrent /\ [][NextConcurrent]_vars

(***************************************************************************)
(* extract_text on bounded documents: a local PDF whose pages are drawn    *)
(* from bounded sets of texts, and one invocation that reads it.           *)
(***************************************************************************)

\* The sequences over S of length at most n.
SeqsUpTo(S, n) == UNION {[1..k -> S] : k \in 0..n}

LineHi == <<"H","i">>

LineValidTitle ==
    <<"A"," ","V","a","l","i","d"," ","T","i","t","l","e"," ","H","e","r","e">>

LineAbstract == <<"A","b","s","t","r","a","c","t">>

LineIntroduction == <<"I","n","t","r","o","d","u","c","t","i","o","n">>

LineHelloWorld == <<"H","e","l","l","o"," ","w","o","r","l","d">>

LineMyPaper == <<"M","y"," ","P","a","p","e","r">>

LineThisIsTheAbstract ==
    <<"T","h","i","s"," ","i","s"," ","t","h","e"," ","a","b","s","t","r",
      "a","c","t",".">>

LineConclusion == <<"C","o","n","c","l","u","s","i","o","n">>

LineTheEnd == <<"T","h","e"," ","e","n","d",".">>

\* A line of n letters that is no heading.
LineOfLen(n) == [i \in 1..n |-> "A"]

\* A heading with a number, a dot and trailing text, and one of two words.
LineNumbered ==
    <<"2","."," ","M","e","t","h","o","d","s"," ","u","s","e","d">>

LineRelatedWork ==
    <<"R","E","L","A","T","E","D"," "," ","w","o","r","k">>

\* A heading with a number and no dot, and a line with a number of two
\* parts, which is no heading.
LineNoDot == <<"3"," ","R","e","s","u","l","t","s">>

LineSubNumbered == <<"1",".","2"," ","M","e","t","h","o","d">>

\* A body line with blanks around it.
LinePadded == <<" "," ","p","a","d","d","e","d"," ","l","i","n","e","\t">>

LineBlank == <<" ">>

\* The lines of the long single pages.
NarrowLines == {<<>>, LineHi, LineValidTitle, LineAbstract}

\* The lines of the short single pages: lengths at and around the title
\* bounds, headings in several forms, padded and blank lines.
WideLines ==
    {<<>>, LineBlank, LineHi, LinePadded, LineAbstract, LineNumbered,
     LineNoDot, LineSubNumbered, LineRelatedWork, LineOfLen(TitleMinLen), LineOfLen(TitleMinLen + 1),
     LineOfLen(TitleMaxLen - 1), LineOfLen(TitleMaxLen)}

\* The number of lines of a long single page.
MaxLines == 6

\* The number of lines of a short single page.
MaxWideLines == 2

\* The number of pages of a document of several pages, and of lines of each.
MaxPages == 2

MaxPageLines == 1

\* The page text of a sequence of lines.
PageOf(lines) == Join(lines, <<"\n">>)

\* The texts named in the specification's examples.
ExampleSuppression == PageOf(<<LineIntroduction, LineAbstract, LineHelloWorld>>)

ExampleTitleLength ==
    PageOf(<<LineHi, LineOfLen(TitleMaxLen + 1), LineValidTitle>>)

ExampleEndToEnd ==
    PageOf(<<LineMyPaper, <<>>, LineAbstract, LineThisIsTheAbstract, <<>>,
             LineConclusion, LineTheEnd>>)

\* The documents extract_text is run on, each a sequence of page texts.
Documents ==
    {<<PageOf(l)>> : l \in SeqsUpTo(NarrowLines, MaxLines)}
    \cup {<<PageOf(l)>> : l \in SeqsUpTo(WideLines, MaxWideLines)}
    \cup SeqsUpTo({PageOf(l) : l \in SeqsUpTo(NarrowLines, MaxPageLines)},
                  MaxPages)
    \cup {<<ExampleSuppression>>, <<ExampleTitleLength>>, <<ExampleEndToEnd>>}

InitExtract ==
    /\ \E d \in Documents : files = LocalPresent :> FileOf(<<"local">>, d, TRUE)
    /\ log = <<>>
    /\ pc = [p \in Procs |-> IF p \in SeqProcs THEN "main" ELSE "idle"]
    /\ argv = [p \in Procs |->
                  IF p \in SeqProcs THEN <<KLocal, LocalPresent>> ELSE <<>>]
    /\ loc = [p \in Procs |-> NoLocals]
    /\ doc = [p \in Procs |-> NoDoc]
    /\ ex = [p \in Procs |-> InitialExtract]
    /\ stdout = [p \in Procs |-> <<>>]
    /\ status = [p \in Procs |-> <<>>]

NextExtract ==
    \/ \E p \in SeqProcs : MainLocal(p)
    \/ \E p \in SeqProcs : OpenDoc(p)
    \/ \E p \in SeqProcs : ReadPage(p)
    \/ \E p \in SeqProcs : FinishExtract(p)

SpecExtract == InitExtract /\ [][NextExtract]_vars

(***************************************************************************)
(* Properties                                                              *)
(***************************************************************************)

Ended(p) == pc[p] = "exited"

\* len(sys.argv) >= 3
HasTwo(a) == Len(a) >= 2

TwoArgs(p) == HasTwo(argv[p])

IsError(object) == "error" \in DOMAIN object

\* The invocation of p has ended and printed a document.
Succeeded(p) ==
    Ended(p) /\ status[p] = <<0>> /\ Len(stdout[p]) = 1 /\ ~IsError(stdout[p][1])

\* Nothing of the document has been segmented.
NothingSegmented(p) ==
    /\ ex[p].page_num = 0
    /\ ex[p].sections = <<>>
    /\ ex[p].current_section = InitialSection

\* What holds of every ended invocation with two arguments, whatever failed.
C1_OneObject(p) ==
    /\ Len(stdout[p]) = 1
    /\ status[p] \in {<<0>>, <<1>>}
    /\ IsError(stdout[p][1]) <=> status[p] = <<1>>
    /\ status[p] = <<1>> /\ loc[p].pdf_path = None =>
           ~doc[p].opened /\ loc[p].opens = 0 /\ NothingSegmented(p)

\* C1 as stated: a failed invocation with two arguments prints exactly one
\* error object and exits with status 1; when resolution failed the PDF was
\* never opened, and when page extraction failed (the open or the reading of
\* a page) no segmentation has been performed.
C1_Original ==
    \A p \in Procs :
        Ended(p) /\ TwoArgs(p) =>
            /\ C1_OneObject(p)
            /\ status[p] = <<1>> /\ loc[p].pdf_path # None =>
                   NothingSegmented(p)

\* C1, amended: a failed invocation with two arguments prints exactly one
\* error object and nothing else, and exits with status 1; a process prints
\* nothing before it ends; when resolution failed the PDF was never opened;
\* when the open failed nothing was segmented; when reading page k failed,
\* the pages before k have been segmented and page k and the later ones have
\* not, and nothing of them is printed.
C1_FailureAborts ==
    \A p \in Procs :
        /\ ~Ended(p) => stdout[p] = <<>> /\ status[p] = <<>>
        /\ Ended(p) /\ TwoArgs(p) =>
            /\ C1_OneObject(p)
            /\ status[p] = <<1>> /\ loc[p].pdf_path # None =>
                   /\ loc[p].opens = 1
                   /\ ~doc[p].opened => NothingSegmented(p)
                   /\ doc[p].opened =>
                          /\ ex[p].page_num < Len(doc[p].pages)
                          /\ Len(ex[p].full_text) = ex[p].page_num

\* An invocation failed while reading the second page of its document.
C1_Witness ==
    \E p \in Procs :
        /\ Ended(p) /\ TwoArgs(p) /\ status[p] = <<1>>
        /\ doc[p].opened /\ ex[p].page_num = 1
        /\ IsError(stdout[p][1])

\* The process is past the cache test of its download function.
PastCacheTest(p) == pc[p] \notin {"idle", "main"}

\* A call of download_arxiv that returned a path which is in the cache.
C2_Populated(first) ==
    /\ HasTwo(first.argv)
    /\ first.loc.source_type = KArxiv
    /\ first.loc.pdf_path # None
    /\ Exists(first.loc.pdf_path)

\* A later call with the arguments a and the locals l repeats first's
\* identifier without any network call, and has no other path.
C2_Repeats(first, a, l) ==
    HasTwo(a) /\ l.source_type = KArxiv /\ a[2] = first.argv[2] =>
        /\ l.queries = 0
        /\ l.downloads = 0
        /\ l.pdf_path = first.loc.pdf_path

\* C2: when download_arxiv succeeded for an identifier and left its file in
\* the cache, a later call with the same identifier makes no index query and
\* no download, and returns the same path.
C2_ArxivIdempotent ==
    \A i \in 1..Len(log) :
        C2_Populated(log[i]) =>
            /\ \A j \in (i + 1)..Len(log) :
                   C2_Repeats(log[i], log[j].argv, log[j].loc)
            /\ \A p \in Procs :
                   PastCacheTest(p) => C2_Repeats(log[i], argv[p], loc[p])

\* Two ended calls for the same identifier: the first downloaded the file,
\* the second returned its path.
C2_Witness ==
    /\ Len(log) = 2
    /\ log[1].loc.source_type = KArxiv /\ log[2].loc.source_type = KArxiv
    /\ log[1].argv = log[2].argv
    /\ log[1].loc.downloads = 1 /\ log[1].loc.pdf_path # None
    /\ log[2].loc.hit /\ log[2].loc.pdf_path = log[1].loc.pdf_path

\* Every line of every page is blank or a heading.
OnlyHeadingsAndBlanks(pages) ==
    \A i \in 1..Len(pages) :
        LET lines == Split(pages[i], "\n")
        IN  \A k \in 1..Len(lines) :
                \/ Strip(lines[k]) = <<>>
                \/ section_pattern_match(Strip(lines[k]))

\* C3: no section has empty content, while segmenting and in the output;
\* "Introduction / Abstract / Hello world" gives the one section (Abstract,
\* "Hello world"); a document of headings and blank lines gives no section.
C3_NoEmptySection ==
    \A p \in Procs :
        /\ \A i \in 1..Len(ex[p].sections) :
               Strip(ex[p].sections[i].content) # <<>>
        /\ Succeeded(p) =>
               LET out == stdout[p][1]
               IN  /\ \A i \in 1..Len(out.sections) :
                          Strip(out.sections[i].content) # <<>>
                   /\ doc[p].pages = <<ExampleSuppression>> =>
                          out.sections = <<[title |-> LineAbstract,
                                            content |-> LineHelloWorld]>>
                   /\ OnlyHeadingsAndBlanks(doc[p].pages) =>
                          out.sections = <<>>

\* The example has been read to its end, and so has a document of two
\* headings and nothing else.
C3_Witness ==
    \E p \in Procs :
        /\ Succeeded(p)
        /\ \/ doc[p].pages = <<ExampleSuppression>>
           \/ doc[p].pages = <<PageOf(<<LineAbstract, LineAbstract>>)>>
        /\ Len(stdout[p][1].sections) = 1

\* C4 as stated: the end-to-end example gives the title "My Paper", one
\* page, and the two sections Abstract and Conclusion, no others.
C4_Original ==
    \A p \in Procs :
        Succeeded(p) /\ doc[p].pages = <<ExampleEndToEnd>> =>
            LET out == stdout[p][1]
            IN  /\ out.title = LineMyPaper
                /\ out.pages = 1
                /\ out.sections =
                       <<[title |-> LineAbstract,
                          content |-> LineThisIsTheAbstract],
                         [title |-> LineConclusion, content |-> LineTheEnd]>>

\* C4, amended: the end-to-end example gives the title "This is the
\* abstract." ("My Paper" and "Abstract" have 8 characters, not more than
\* 10), one page, and three sections: Beginning with the content "My Paper",
\* then Abstract and Conclusion.
C4_EndToEnd ==
    \A p \in Procs :
        Succeeded(p) /\ doc[p].pages = <<ExampleEndToEnd>> =>
            LET out == stdout[p][1]
            IN  /\ out.title = LineThisIsTheAbstract
                /\ out.pages = 1
                /\ out.sections =
                       <<[title |-> Beginning, content |-> LineMyPaper],
                         [title |-> LineAbstract,
                          content |-> LineThisIsTheAbstract],
                         [title |-> LineConclusion, content |-> LineTheEnd]>>

\* The end-to-end example has been read to its end.
C4_Witness ==
    \E p \in Procs :
        /\ Succeeded(p)
        /\ doc[p].pages = <<ExampleEndToEnd>>
        /\ loc[p].source_type = KLocal

\* The first of the lines, trimmed, with more than 10 and fewer than 200
\* characters, or None.
C5_FirstQualifying(lines) ==
    LET ok == {i \in 1..Len(lines) :
                  Len(Strip(lines[i])) > 10 /\ Len(Strip(lines[i])) < 200}
    IN  IF ok = {} THEN None
        ELSE Strip(lines[CHOOSE i \in ok : \A j \in ok : i <= j])

\* The first n elements of a sequence, or all of them.
C5_Take(lines, n) == SubSeq(lines, 1, IF Len(lines) < n THEN Len(lines) ELSE n)

\* The title C5 states: from the first five non-empty trimmed lines of the
\* first page.
C5_ClaimedTitle(pages) ==
    IF pages = <<>> THEN None
    ELSE C5_FirstQualifying(
             C5_Take(SelectSeq(Split(pages[1], "\n"),
                               LAMBDA l : Strip(l) # <<>>), 5))

\* The title the amended C5 states: from the first five lines, blank or not,
\* of the first page's text without its leading and trailing whitespace.
C5_AmendedTitle(pages) ==
    IF pages = <<>> THEN None
    ELSE C5_FirstQualifying(C5_Take(Split(Strip(pages[1]), "\n"), 5))

\* C5 as stated: the title is the first of the first five non-empty trimmed
\* lines of the first page whose length qualifies, and absent when none of
\* them qualifies; later pages are not examined.
C5_Original ==
    \A p \in Procs :
        Succeeded(p) => stdout[p][1].title = C5_ClaimedTitle(doc[p].pages)

\* C5, amended: title detection examines exactly the first five lines of the
\* first page's text, taken after leading and trailing whitespace is removed
\* from the text as a whole; a blank line among them uses up one of the five
\* places, and later pages are never examined; the title is the first of
\* those lines whose trimmed length qualifies, and is absent when none does.
C5_TitleFromFirstFiveLines ==
    \A p \in Procs :
        Succeeded(p) => stdout[p][1].title = C5_AmendedTitle(doc[p].pages)

\* A document read to its end without a title, although one of the first
\* five non-empty lines of its first page qualifies.
C5_Witness ==
    \E p \in Procs :
        /\ Succeeded(p)
        /\ stdout[p][1].title = None
        /\ C5_ClaimedTitle(doc[p].pages) # None

\* C6: a detected title has more than 10 and fewer than 200 characters and
\* is trimmed; the lines before it on the first page were rejected for
\* having at most 10 or at least 200 characters; the lines "Hi", 201 x "A",
\* "A Valid Title Here" give the title "A Valid Title Here".
C6_TitleLength ==
    \A p \in Procs :
        /\ ex[p].title # None =>
               Len(ex[p].title) > 10 /\ Len(ex[p].title) < 200
        /\ Succeeded(p) =>
               LET out == stdout[p][1]
                   lines == IF doc[p].pages = <<>> THEN <<>>
                            ELSE Split(Strip(doc[p].pages[1]), "\n")
               IN  /\ out.title # None =>
                          /\ Len(out.title) > 10 /\ Len(out.title) < 200
                          /\ Strip(out.title) = out.title
                          /\ \E k \in 1..Len(lines) :
                                 /\ Strip(lines[k]) = out.title
                                 /\ \A j \in 1..(k - 1) :
                                        \/ Len(Strip(lines[j])) <= 10
                                        \/ Len(Strip(lines[j])) >= 200
                   /\ doc[p].pages = <<ExampleTitleLength>> =>
                          out.title = LineValidTitle

\* The example of the three lines has been read to its end.
C6_Witness ==
    \E p \in Procs :
        /\ Succeeded(p)
        /\ doc[p].pages = <<ExampleTitleLength>>
        /\ stdout[p][1].title = LineValidTitle

\* The last segment of a URL: what follows its last slash.
LastSegment(url) == LET parts == Split(url, "/") IN parts[Len(parts)]

\* A call of download_url, with the arguments a and the locals l, for a URL
\* whose last segment does not end in ".pdf".
C7_NamedByHash(a, l) ==
    HasTwo(a) /\ l.source_type = KUrl /\ ~EndsWith(LastSegment(a[2]), DotPdf)

\* C7: for a URL whose last segment does not end in ".pdf", the cache path
\* ends in ".pdf", and two runs given the same URL compute the same path.
C7_StableFilename ==
    /\ \A p \in Procs :
           PastCacheTest(p) /\ C7_NamedByHash(argv[p], loc[p]) =>
               EndsWith(loc[p].cache_path, DotPdf)
    /\ \A i \in 1..Len(log) :
           C7_NamedByHash(log[i].argv, log[i].loc) =>
               /\ EndsWith(log[i].loc.cache_path, DotPdf)
               /\ \A j \in (i + 1)..Len(log) :
                      log[j].argv = log[i].argv =>
                          log[j].loc.cache_path = log[i].loc.cache_path
               /\ \A p \in Procs :
                      PastCacheTest(p) /\ argv[p] = log[i].argv =>
                          loc[p].cache_path = log[i].loc.cache_path

\* The process runs a local-kind invocation.
C8_Local(p) ==
    pc[p] # "idle" /\ HasTwo(argv[p]) /\ Lower(argv[p][1]) = KLocal

C8_LocalState ==
    \A p \in Procs :
        C8_Local(p) /\ PastCacheTest(p) =>
            /\ loc[p].queries = 0 /\ loc[p].downloads = 0 /\ loc[p].gets = 0
            /\ ~Exists(argv[p][2]) =>
                   /\ Ended(p) /\ status[p] = <<1>>
                   /\ Len(stdout[p]) = 1 /\ IsError(stdout[p][1])
                   /\ ~doc[p].opened /\ loc[p].opens = 0
            /\ Exists(argv[p][2]) =>
                   /\ loc[p].pdf_path = argv[p][2]
                   /\ doc[p].opened => doc[p].path = argv[p][2]
                   /\ Succeeded(p) => stdout[p][1].pdf_path = argv[p][2]

C8_LocalStep ==
    \A p \in Procs : C8_Local(p) => files' = files

\* C8: a local-kind invocation of a path that does not exist ends with the
\* error object and never opens a PDF; of a path that exists, it hands the
\* path as given to extraction and reports it as pdf_path; it makes no
\* network call, and no step of it creates or changes a file.
C8_LocalFrame == [](C8_LocalState) /\ [][C8_LocalStep]_vars

\* A local file has been read to its end while the cache holds a file of an
\* earlier invocation.
C8_Witness ==
    \E p \in Procs :
        /\ Succeeded(p)
        /\ loc[p].source_type = KLocal
        /\ stdout[p][1].pdf_path = LocalPresent
        /\ DOMAIN files # {LocalPresent}

\* C9 as stated: the output's source is the second argument and its
\* source_type is the first argument, both exactly as given.
C9_Original ==
    \A p \in Procs :
        Succeeded(p) =>
            /\ stdout[p][1].source = argv[p][2]
            /\ stdout[p][1].source_type = argv[p][1]

\* C9, amended: the output's source is the second argument exactly as given,
\* and its source_type is the first argument in lower case, for every
\* letter-casing of the kind that is accepted.
C9_SourceEcho ==
    \A p \in Procs :
        Succeeded(p) =>
            LET out == stdout[p][1]
            IN  /\ out.source = argv[p][2]
                /\ Len(out.source_type) = Len(argv[p][1])
                /\ \A i \in 1..Len(out.source_type) :
                       out.source_type[i] = LowerChar(argv[p][1][i])

\* An invocation whose kind was given in mixed case has succeeded.
C9_Witness ==
    \E p \in Procs :
        /\ Succeeded(p)
        /\ argv[p][1] # Lower(argv[p][1])
        /\ stdout[p][1].source_type = KLocal

\* C10: whenever download_url has returned a path for a URL, the file at
\* that path holds the body of a GET of that URL, so that no two URLs, and
\* no URL and repository identifier, share a cache entry.
C10_NoSharedEntry ==
    \A p \in Procs :
        loc[p].source_type = KUrl /\ loc[p].pdf_path # None =>
            /\ Exists(loc[p].pdf_path)
            /\ files[loc[p].pdf_path].origin = <<"url", loc[p].source>>

\* C11: whenever an invocation has ended after fitz.open returned a
\* document, by a returned result or by an exception raised while a page was
\* read or segmented, the document has been closed.
C11_ClosedOnExit ==
    \A p \in Procs : Ended(p) /\ doc[p].opened => doc[p].closed

\* The part of C11 about the path that returns a result.
C11_ClosedOnReturn ==
    \A p \in Procs : Succeeded(p) => doc[p].opened /\ doc[p].closed

\* The messages of a download that broke off after its file was created.
InterruptedMessages == {"arxiv: download interrupted", "write failed"}

\* The invocation of p has ended by a download that broke off.
Interrupted(p) ==
    /\ Ended(p) /\ Len(stdout[p]) = 1 /\ IsError(stdout[p][1])
    /\ stdout[p][1].error[1] \in InterruptedMessages

\* The ended invocation e missed the cache and failed by a download that
\* broke off, and the file it was writing is at its cache path.
C12_LeftTruncated(e) ==
    /\ HasTwo(e.argv) /\ e.status = <<1>>
    /\ e.loc.cache_path # None /\ ~e.loc.hit /\ e.loc.pdf_path = None
    /\ Len(e.stdout) = 1 /\ IsError(e.stdout[1])
    /\ e.stdout[1].error[1] \in InterruptedMessages
    /\ Exists(e.loc.cache_path) /\ ~files[e.loc.cache_path].whole

\* The invocation of p, past its cache test, has taken the file e left as
\* a cache hit: no network call, and that file is what extraction is given.
C12_TakesAsHit(e, p) ==
    /\ loc[p].hit
    /\ loc[p].queries = 0 /\ loc[p].downloads = 0 /\ loc[p].gets = 0
    /\ loc[p].pdf_path = e.loc.cache_path
    /\ doc[p].opened => doc[p].path = e.loc.cache_path

\* C12: a download that broke off leaves its truncated file at the cache
\* path, and the next invocation for the same source takes that file as a
\* cache hit: it makes no network call and gives the file to extraction.
C12_TruncatedHit ==
    /\ \A p \in Procs :
           Interrupted(p) =>
               Exists(loc[p].cache_path) /\ ~files[loc[p].cache_path].whole
    /\ Len(log) >= 1 =>
           LET e == log[Len(log)]
           IN  C12_LeftTruncated(e) =>
                   \A p \in Procs :
                       PastCacheTest(p) /\ argv[p] = e.argv =>
                           C12_TakesAsHit(e, p)

\* The same for the sources whose cache file is not named by hash(url):
\* repository identifiers and URLs whose last segment ends in ".pdf".
C12_TruncatedHitStableName ==
    Len(log) >= 1 =>
        LET e == log[Len(log)]
        IN  C12_LeftTruncated(e) /\ ~C7_NamedByHash(e.argv, e.loc) =>
                \A p \in Procs :
                       PastCacheTest(p) /\ argv[p] = e.argv =>
                           C12_TakesAsHit(e, p)

\* A truncated file left by one invocation has been opened by the next.
C12_TruncatedOpened ==
    /\ Len(log) >= 1
    /\ C12_LeftTruncated(log[Len(log)])
    /\ \E p \in Procs :
           /\ argv[p] = log[Len(log)].argv
           /\ loc[p].hit /\ loc[p].opens = 1

\* The bytes the download of process p writes.
MyBody(p) ==
    IF loc[p].source_type = KArxiv
    THEN ArxivBody(CleanArxivId(loc[p].source))
    ELSE UrlBody(loc[p].source)

\* Process p is between the creation of its cache file and the end of its
\* write.
Writing(p) == pc[p] \in {"arxiv_write", "url_write"}

\* Process p missed the cache, wrote its cache file and returned its path.
Wrote(p) ==
    /\ loc[p].cache_path # None /\ ~loc[p].hit
    /\ loc[p].pdf_path = loc[p].cache_path

C13_CacheTestStep ==
    \A p \in Procs :
        pc[p] = "main" /\ pc'[p] \in {"open", "arxiv_search", "url_get"}
        /\ loc'[p].cache_path # None =>
            /\ loc'[p].hit <=> Exists(loc'[p].cache_path)
            /\ loc'[p].hit <=> pc'[p] = "open"
            /\ loc'[p].hit => loc'[p].pdf_path = loc'[p].cache_path

\* A write that ends puts the writer's bytes at the start of the file,
\* whatever another process has written there since the writer opened it;
\* bytes of that other body stay behind them when it is the longer one, and
\* only then.
C13_WriteStep ==
    \A p \in Procs :
        Writing(p) /\ pc'[p] = "open" =>
            LET was == files[loc[p].cache_path]
                now == files'[loc[p].cache_path]
                mine == MyBody(p)
                longer == was.origin # mine.origin
                          /\ Length(was) > Length(mine)
            IN  /\ now.origin = mine.origin
                /\ now.pages = mine.pages
                /\ now.whole
                /\ now.over => longer
                /\ longer /\ Intact(was) => now.over

C13_Overlaid ==
    \E p, q \in Procs :
        /\ p # q /\ Wrote(p) /\ Wrote(q)
        /\ loc[p].cache_path = loc[q].cache_path
        /\ files[loc[p].cache_path] = Overlaid(MyBody(q))

\* Two processes missed the same path and both wrote it; the file holds
\* exactly the bytes of the last writer.
C13_LastWriterOnly ==
    \E p, q \in Procs :
        /\ p # q /\ Wrote(p) /\ Wrote(q)
        /\ loc[p].cache_path = loc[q].cache_path
        /\ MyBody(p) # MyBody(q)
        /\ files[loc[p].cache_path] = MyBody(q)

\* The lines of all pages in order, each trimmed: a line ends at a newline
\* and at the end of its page.
RECURSIVE C14_RawLines(_)
C14_RawLines(pages) ==
    IF pages = <<>> THEN <<>>
    ELSE Split(Head(pages), "\n") \o C14_RawLines(Tail(pages))

C14_Lines(pages) ==
    LET raw == C14_RawLines(pages)
    IN  [i \in 1..Len(raw) |-> Strip(raw[i])]

\* The trimmed, non-empty, non-heading lines of all pages, in order.
C14_BodyLines(pages) ==
    SelectSeq(C14_Lines(pages),
              LAMBDA l : l # <<>> /\ ~section_pattern_match(l))

\* The content lines of all sections, in order.
RECURSIVE C14_ContentLines(_)
C14_ContentLines(sections) ==
    IF sections = <<>> THEN <<>>
    ELSE Split(Head(sections).content, "\n")
             \o C14_ContentLines(Tail(sections))

\* The sections the lines L of a document fall into: 0 stands for the start
\* of the document and j for the heading at line j; the lines of j are the
\* non-empty lines after j and before the next heading; a start or heading
\* without lines has no section.
C14_Expected(pages) ==
    LET L == C14_Lines(pages)
        n == Len(L)
        IsHeading(i) == section_pattern_match(L[i])
        starts == <<0>> \o SelectSeq([i \in 1..n |-> i], IsHeading)
        EndOf(j) ==
            IF \E k \in (j + 1)..n : IsHeading(k)
            THEN (CHOOSE k \in (j + 1)..n :
                      IsHeading(k) /\ \A m \in (j + 1)..(k - 1) : ~IsHeading(m))
                 - 1
            ELSE n
        LinesOf(j) == SelectSeq(SubSeq(L, j + 1, EndOf(j)),
                                LAMBDA l : l # <<>>)
        kept == SelectSeq(starts, LAMBDA j : LinesOf(j) # <<>>)
    IN  [i \in 1..Len(kept) |->
            [title |-> IF kept[i] = 0 THEN Beginning ELSE L[kept[i]],
             content |-> Join(LinesOf(kept[i]), <<"\n">>)]]

\* C14: the sections of the output are, in document order, the groups the
\* body lines of all pages fall into by their nearest preceding heading
\* ("Beginning" before the first heading), whatever page a line is on; and
\* their content lines, concatenated, are exactly the trimmed, non-empty,
\* non-heading lines of all pages in order.
C14_Partition ==
    \A p \in Procs :
        Succeeded(p) =>
            /\ stdout[p][1].sections = C14_Expected(doc[p].pages)
            /\ C14_ContentLines(stdout[p][1].sections)
                   = C14_BodyLines(doc[p].pages)

\* A document of two pages whose one section has a line of each page.
C14_Witness ==
    \E p \in Procs :
        /\ Succeeded(p)
        /\ doc[p].pages = <<LineHi, LineValidTitle>>
        /\ stdout[p][1].sections =
               <<[title |-> Beginning,
                  content |-> LineHi \o <<"\n">> \o LineValidTitle]>>

\* s without its leading digits, without the dot after them when
\* dotOptional allows the digits to stand without one, and without the
\* whitespace that follows; s itself when it does not begin that way.
C15_Unnumbered(s, dotOptional) ==
    LET d == Span(s, Digits)
        dotted == d < Len(s) /\ s[d + 1] = "."
        rest == From(s, IF dotted THEN d + 1 ELSE d)
    IN  IF d = 0 \/ (~dotted /\ ~dotOptional) THEN s
        ELSE From(rest, Span(rest, Whitespace))

\* The trimmed line s begins with a vocabulary word, in any letter case,
\* as it stands or after its number.
C15_BeginsWithWord(s, dotOptional) ==
    MatchesVocabulary(s) \/ MatchesVocabulary(C15_Unnumbered(s, dotOptional))

\* The content lines of a section of the output.
C15_Content(section) == Split(section.content, "\n")

\* What C15 says of an output with the sections secs for the trimmed lines L,
\* when Heading tells which lines are headings: a heading followed by a body
\* line starts a section that has the heading as its title and the body line
\* as its first content line; any other non-empty line followed by a body
\* line is content of the section that line is content of next; every title
\* but "Beginning" is a whole heading line, and no content line is a heading.
C15_Segmented(L, secs, Heading(_)) ==
    /\ \A k \in 1..Len(secs) :
           /\ \A m \in 1..Len(C15_Content(secs[k])) :
                  ~Heading(C15_Content(secs[k])[m])
           /\ \/ k = 1 /\ secs[k].title = Beginning
              \/ \E i \in 1..Len(L) : L[i] = secs[k].title /\ Heading(L[i])
    /\ \A i \in 1..(Len(L) - 1) :
           L[i] # <<>> /\ L[i + 1] # <<>> /\ ~Heading(L[i + 1]) =>
               IF Heading(L[i])
               THEN \E k \in 1..Len(secs) :
                        /\ secs[k].title = L[i]
                        /\ C15_Content(secs[k])[1] = L[i + 1]
               ELSE \E k \in 1..Len(secs) :
                        \E m \in 1..(Len(C15_Content(secs[k])) - 1) :
                            /\ C15_Content(secs[k])[m] = L[i]
                            /\ C15_Content(secs[k])[m + 1] = L[i + 1]

C15_ClaimedHeading(s) == C15_BeginsWithWord(s, FALSE)

C15_CodeHeading(s) == C15_BeginsWithWord(s, TRUE)

\* C15 as stated: the headings are the trimmed lines that begin with a
\* vocabulary word after an optional prefix of a number and a dot and
\* whitespace.
C15_Original ==
    \A p \in Procs :
        Succeeded(p) =>
            C15_Segmented(C14_Lines(doc[p].pages), stdout[p][1].sections,
                          C15_ClaimedHeading)

\* C15, amended: the headings are the trimmed lines that begin, in any
\* letter case and whatever follows, with a vocabulary word after an
\* optional prefix of one or more digits, a dot or none, and whitespace or
\* none; a heading starts a section titled with the whole trimmed line, and
\* it is content of no section.
C15_HeadingPrefix ==
    \A p \in Procs :
        Succeeded(p) =>
            C15_Segmented(C14_Lines(doc[p].pages), stdout[p][1].sections,
                          C15_CodeHeading)

\* A numbered heading with text after its word, followed by a body line,
\* has become the title of the one section.
C15_Witness ==
    \E p \in Procs :
        /\ Succeeded(p)
        /\ doc[p].pages = <<PageOf(<<LineNumbered, LinePadded>>)>>
        /\ stdout[p][1].sections = <<[title |-> LineNumbered,
                                      content |-> Strip(LinePadded)]>>

\* A line of a number without a dot and a vocabulary word is a heading.
C15_NoDotHeading ==
    \E p \in Procs :
        /\ Succeeded(p)
        /\ doc[p].pages = <<PageOf(<<LineNoDot, LineHi>>)>>
        /\ stdout[p][1].sections = <<[title |-> LineNoDot, content |-> LineHi]>>

\* The messages of a resolution that failed before a file was created: the
\* index has no record or does not answer, the request for the document or
\* the GET fails.
BeforeWriteMessages ==
    {"arXiv paper not found: ", "arxiv: query failed",
     "arxiv: download failed", "requests: GET failed"}

\* The invocation with the output out failed before any byte was written.
C16_FailedBeforeWrite(out) ==
    /\ Len(out) = 1 /\ IsError(out[1])
    /\ out[1].error[1] \in BeforeWriteMessages

\* The invocation of p, past its cache test, has missed the cache and, once
\* past its first network call, has made it.
C16_CallsAgain(p) ==
    /\ ~loc[p].hit
    /\ pc[p] \notin {"arxiv_search", "url_get"} =>
           loc[p].queries + loc[p].gets >= 1

\* C16: an invocation that failed before any byte was written has left no
\* file at its cache key, and the next invocation for the same source
\* misses the cache and makes the network call again.
C16_NoFileThenRetry ==
    /\ \A p \in Procs :
           Ended(p) /\ C16_FailedBeforeWrite(stdout[p]) =>
               ~Exists(loc[p].cache_path)
    /\ Len(log) >= 1 /\ C16_FailedBeforeWrite(log[Len(log)].stdout) =>
           \A p \in Procs :
               PastCacheTest(p) /\ argv[p] = log[Len(log)].argv =>
                   C16_CallsAgain(p)

\* The same for the next invocation that tests the same cache path, as
\* every invocation for the same repository identifier, and for the same
\* URL whose last segment ends in ".pdf", does.
C16_NoFileThenRetrySamePath ==
    /\ \A p \in Procs :
           Ended(p) /\ C16_FailedBeforeWrite(stdout[p]) =>
               ~Exists(loc[p].cache_path)
    /\ Len(log) >= 1 /\ C16_FailedBeforeWrite(log[Len(log)].stdout) =>
           \A p \in Procs :
               /\ PastCacheTest(p) /\ argv[p] = log[Len(log)].argv =>
                      \/ C16_CallsAgain(p)
                      \/ C7_NamedByHash(argv[p], loc[p])
               /\ PastCacheTest(p)
                  /\ loc[p].cache_path = log[Len(log)].loc.cache_path =>
                      C16_CallsAgain(p)

\* No step of an invocation that has not begun to write changes a file.
C16_UnchangedStep ==
    \A p \in Procs :
        pc[p] \in {"main", "arxiv_search", "url_get"}
        \/ (pc[p] = "arxiv_download" /\ pc'[p] = "exited") =>
            files' = files

C16_CacheUnchanged == [][C16_UnchangedStep]_vars

\* A failed GET has been followed by another GET of the same URL.
C16_Retried ==
    /\ Len(log) >= 1 /\ C16_FailedBeforeWrite(log[Len(log)].stdout)
    /\ \E p \in Procs :
           /\ argv[p] = log[Len(log)].argv
           /\ loc[p].gets = 1 /\ pc[p] = "url_open"

\* Process p has missed the cache and not yet created its file.
C17_BeforeWrite(p) ==
    pc[p] \in {"arxiv_search", "arxiv_download", "url_get", "url_open"}

\* The file an invocation writes is one it has created: until it creates
\* it there is no file at its cache path, and while it writes it the file
\* holds a part of its own download.
C17_OwnFile ==
    \A p \in Procs :
        /\ C17_BeforeWrite(p) => ~Exists(loc[p].cache_path)
        /\ Writing(p) =>
               /\ Exists(loc[p].cache_path)
               /\ files[loc[p].cache_path] = Truncated(MyBody(p))

\* No step removes a file, and a step changes only the file the running
\* invocation has created and is writing.
C17_KeepsStep ==
    \A path \in DOMAIN files :
        /\ path \in DOMAIN files'
        /\ files'[path] # files[path] =>
               \E p \in Procs : Writing(p) /\ loc[p].cache_path = path

\* C17: in invocations that follow one another, whatever their kind and
\* outcome, no invocation removes or rewrites a file that was there before
\* it: the entries of the cache only grow in number and keep their bytes.
C17_CacheOnlyGrows == [](C17_OwnFile) /\ [][C17_KeepsStep]_vars

\* An invocation has written a new cache file beside the one an earlier
\* invocation wrote.
C17_Witness ==
    /\ Len(log) >= 1
    /\ log[1].loc.cache_path # None /\ ~log[1].loc.hit
    /\ log[1].loc.pdf_path = log[1].loc.cache_path
    /\ \E p \in Procs :
           /\ Wrote(p)
           /\ loc[p].cache_path # log[1].loc.cache_path
           /\ files[log[1].loc.cache_path].whole
           /\ files[loc[p].cache_path].whole

\* The network calls process p has made: index queries, document downloads
\* and GETs.
C18_Calls(p) == <<loc[p].queries, loc[p].downloads, loc[p].gets>>

\* The calls made by an invocation that a failed network call has ended,
\* by the message of the failure: the failed call is the last one made.
C18_CallsAtFailure(message) ==
    CASE message \in {"arXiv paper not found: ", "arxiv: query failed"}
             -> <<1, 0, 0>>
      [] message \in {"arxiv: download failed", "arxiv: download interrupted"}
             -> <<1, 1, 0>>
      [] message = "requests: GET failed" -> <<0, 0, 1>>
      [] OTHER -> <<0, 0, 0>>

NetworkMessages ==
    {"arXiv paper not found: ", "arxiv: query failed",
     "arxiv: download failed", "arxiv: download interrupted",
     "requests: GET failed"}

\* C18: an invocation makes at most one index query, one document download
\* and one GET, and the first of them that fails ends it: one error object,
\* exit status 1, no further network call and no PDF opened.
C18_NoRetry ==
    \A p \in Procs :
        /\ loc[p].queries <= 1 /\ loc[p].downloads <= 1 /\ loc[p].gets <= 1
        /\ loc[p].downloads <= loc[p].queries
        /\ loc[p].gets = 0 \/ loc[p].queries = 0
        /\ Ended(p) /\ Len(stdout[p]) = 1 /\ IsError(stdout[p][1])
           /\ stdout[p][1].error[1] \in NetworkMessages =>
               /\ C18_Calls(p) = C18_CallsAtFailure(stdout[p][1].error[1])
               /\ status[p] = <<1>>
               /\ loc[p].opens = 0 /\ ~doc[p].opened

\* An invocation whose index query succeeded and whose download failed has
\* ended after those two calls.
C18_Witness ==
    \E p \in Procs :
        /\ Ended(p) /\ status[p] = <<1>>
        /\ IsError(stdout[p][1])
        /\ stdout[p][1].error[1] = "arxiv: download failed"
        /\ C18_Calls(p) = <<1, 1, 0>>

\* An identifier with a letter, in the other letter case.
IdVersionedUpper == <<"1","V","2">>

\* Whitespace around an identifier, and the scheme prefix in three letter
\* cases or absent.
C19_Blanks == {<<>>, <<" ">>, <<"\t">>, <<" ", "\n">>}

C19_Prefixes ==
    {<<>>, <<"a","r","x","i","v",":">>, <<"A","R","X","I","V",":">>,
     <<"a","r","X","i","v",":">>}

\* The ways of writing one identifier: its letter cases, with or without the
\* prefix, with or without whitespace around the prefix and around it.
C19_Spellings(cases) ==
    {a \o x \o b \o id \o c :
         a \in C19_Blanks, x \in C19_Prefixes, b \in C19_Blanks,
         id \in cases, c \in C19_Blanks}

C19_Identifiers == {{Id12}, {IdVersioned, IdVersionedUpper}, {Id99}}

\* The sets of the ways of writing each identifier.
C19_SpellingClasses == {C19_Spellings(cases) : cases \in C19_Identifiers}

\* Two identifiers as given are ways of writing the same one.
C19_SameIdentifier(a, b) ==
    \E class \in C19_SpellingClasses : a \in class /\ b \in class

\* C19: the ways of writing one identifier all have one cache path, that of
\* the identifier in lower case; and once download_arxiv has returned a path
\* for one of them, a call with another of them is a cache hit that makes no
\* network call and returns the same path.
C19_SameKey ==
    /\ log = <<>> /\ (\A p \in Procs : pc[p] = "idle") =>
           \A cases \in C19_Identifiers :
               \A a \in C19_Spellings(cases) :
                   \E id \in cases :
                       ArxivCachePath(a) =
                           PathJoin(CacheDir, ArxivFilename(Lower(id)))
    /\ \A i \in 1..Len(log) :
           HasTwo(log[i].argv) /\ log[i].loc.source_type = KArxiv
           /\ log[i].loc.pdf_path # None =>
               \A p \in Procs :
                   /\ PastCacheTest(p) /\ HasTwo(argv[p])
                   /\ loc[p].source_type = KArxiv
                   /\ C19_SameIdentifier(log[i].argv[2], argv[p][2])
                   => /\ loc[p].hit
                      /\ loc[p].queries = 0 /\ loc[p].downloads = 0
                      /\ loc[p].pdf_path = log[i].loc.pdf_path

\* An identifier was resolved by a download, and then, written another way,
\* by a cache hit on the same path.
C19_Witness ==
    /\ Len(log) >= 1
    /\ log[1].loc.source_type = KArxiv /\ log[1].loc.downloads = 1
    /\ log[1].loc.pdf_path # None
    /\ \E p \in Procs :
           /\ loc[p].source_type = KArxiv
           /\ argv[p][2] = IdVersionedPrefixed
           /\ log[1].argv[2] = IdVersioned
           /\ loc[p].hit /\ loc[p].pdf_path = log[1].loc.pdf_path

\* C20: an invocation whose document has been opened with no pages ends
\* with exit status 0 and prints a document with no title, pages = 0, no
\* sections and the empty text; no error is printed.
C20_ZeroPages ==
    \A p \in Procs :
        Ended(p) /\ doc[p].opened /\ doc[p].pages = <<>> =>
            /\ Succeeded(p)
            /\ doc[p].closed
            /\ stdout[p][1].title = None
            /\ stdout[p][1].pages = 0
            /\ stdout[p][1].sections = <<>>
            /\ stdout[p][1].text = <<>>
            /\ stdout[p][1].pdf_path = loc[p].pdf_path

\* A PDF that is intact and has no pages has been extracted.
C20_Witness ==
    \E p \in Procs :
        /\ Succeeded(p)
        /\ Intact(files[loc[p].pdf_path])
        /\ files[loc[p].pdf_path].pages = <<>>
        /\ stdout[p][1].pages = 0

=============================================================================
